---- MODULE Spec2Model ----
(***************************************************************************)
(* Model of src/main.py: the Monte Carlo estimator of pi with its          *)
(* start / stop / resume / restart buttons and its sampling loop.          *)
(*                                                                         *)
(* The loop of monte_carlo_pi_animation is single-threaded.  The button    *)
(* callbacks and the closing of the window run only inside plt.pause, so   *)
(* the work between two pauses is one atomic step of the model.            *)
(***************************************************************************)
EXTENDS Integers, Sequences, FiniteSets

(* ------------------------------ bounds --------------------------------- *)

\* Small runs: num_samples ranges over 1..MaxSamples.
MaxSamples == 4
\* --batch ranges over -NegBatch..MaxBatch (main.py:165 accepts any integer).
NegBatch == 1
MaxBatch == 3
\* One large run, whose batches are subsampled at a stride above 1.
BigSamples == 1000
BigBatch == 400
\* How often restart is pressed in one behaviour.
MaxRestarts == 1
\* Batch sizes 1..SweepBatch, over which the subsample size is tabulated.
SweepBatch == 1000
\* --samples texts typed by the user have at most MaxArgLen characters.
MaxArgLen == 3
\* Targets within TierWindow of a threshold of the batch size table.
TierWindow == 3

(* -------------------------- program constants -------------------------- *)

SubsampleTarget == 200
DrainPerTick == 100
Tier1Samples == 1000000
Tier2Samples == 10000000
Tier3Samples == 100000000
Tier1Batch == 10000
Tier2Batch == 100000
Tier3Batch == 1000000
Tier4Batch == 5000000

(* ------------------------------ helpers -------------------------------- *)

Min(a, b) == IF a <= b THEN a ELSE b

Max(a, b) == IF a >= b THEN a ELSE b

\* ceil(a / b) for a >= 0, b >= 1
CeilDiv(a, b) == (a + b - 1) \div b

\* The --batch argument as a sequence: <<>> when absent (None, the argparse
\* default of main.py:165), <<b>> when given as b.
None == <<>>

(* ------------------------------- state --------------------------------- *)

VARIABLES
    samples_arg,    \* args.samples: the --samples text, one character per element
    batch_arg,      \* args.batch: <<>> for None, <<b>> for the integer b
    stdout,         \* the lines printed
    num_samples,    \* argument: the target number of samples
    batch_size,     \* argument after the default-batch logic
    inside_total,   \* running count of points inside the circle
    samples_done,   \* running count of points drawn
    running,        \* running[0]
    disp,           \* disp_x, disp_y, disp_colors: three lists kept in step
    point_queue,    \* subsampled points not yet displayed
    current_batch,  \* size of the batch drawn last (0 before the first)
    scatter,        \* the points the scatter plot shows
    pi_text,        \* <<inside_total, samples_done>> behind the estimate, or <<>>
    samples_text,   \* <<samples_done, num_samples>> behind the progress, or <<>>
    visible,        \* visibility of the axes, the circle and the four buttons
    fig_open,       \* plt.fignum_exists(fig.number)
    pc,             \* position of the loop
    draws,          \* history: sampler invocations since the last reset (CountDraw)
    run_no,         \* history: number of restarts so far
    last_op,        \* history: the step taken last
    prev_state      \* history: the controller state that step was taken in

data == <<inside_total, samples_done, disp, point_queue>>

\* What main() holds and prints; the animation never touches it.
cli == <<samples_arg, batch_arg, stdout>>

vars == <<cli, num_samples, batch_size, inside_total, samples_done, running, disp,
          point_queue, current_batch, scatter, pi_text, samples_text, visible,
          fig_open, pc, draws, run_no, last_op, prev_state>>

(* ------------------------- batch size policy --------------------------- *)

\* The table with its thresholds exclusive: a target equal to a threshold
\* falls into the next row.
DefaultBatchSizeStrict(n) ==
    IF n < Tier1Samples THEN Tier1Batch
    ELSE IF n < Tier2Samples THEN Tier2Batch
    ELSE IF n < Tier3Samples THEN Tier3Batch
    ELSE Tier4Batch

\* main.py:11-19
DefaultBatchSize(n) ==
    IF n <= Tier1Samples THEN Tier1Batch
    ELSE IF n <= Tier2Samples THEN Tier2Batch
    ELSE IF n <= Tier3Samples THEN Tier3Batch
    ELSE Tier4Batch

\* main.py:9-19: the batch size the loop uses for the --batch argument b
EffectiveBatch(n, b) == IF b = None THEN DefaultBatchSize(n) ELSE b[1]

(* ------------------------------ sampling ------------------------------- *)

\* ClampedBatch without the clamp: every batch is a full batch_size.
ClampedBatchUnclamped(b, n, done) == b

\* ClampedBatch clamped to the target instead of to what remains of it.
ClampedBatchIgnoresDone(b, n, done) == Min(b, n)

\* main.py:127
ClampedBatch(b, n, done) == Min(b, n - done)

\* Stride without subsampling: every point of the batch is queued.
StrideOne(cb) == 1

\* Stride computed against the drain size instead of the subsample size.
StrideWrongTarget(cb) == Max(1, cb \div DrainPerTick)

\* main.py:135
Stride(cb) == Max(1, cb \div SubsampleTarget)

\* main.py:136: range(0, cb, step) as the sequence of its indices
StrideIndices(cb) ==
    [j \in 1..CeilDiv(Max(cb, 0), Stride(cb)) |-> (j - 1) * Stride(cb)]

\* main.py:128-131: the outcomes of one batch's classification, as the set
\* of indices with x^2 + y^2 <= 1.  The draw is random; the model picks
\* among none, all, the even and the odd indices.
InsideChoices(cb) ==
    { {},
      0..(cb - 1),
      {i \in 0..(cb - 1) : i % 2 = 0},
      {i \in 0..(cb - 1) : i % 2 = 1} }

\* main.py:137
Color(isInside) == IF isInside THEN "blue" ELSE "red"

\* main.py:135-138: the points appended to point_queue for one batch.  A
\* point (x[i], y[i], color) is named by the run and draw that produced it
\* and its index i in the batch.
Subsample(cb, inside, r, d) ==
    [j \in 1..Len(StrideIndices(cb)) |->
        [run |-> r, draw |-> d, idx |-> StrideIndices(cb)[j],
         color |-> Color(StrideIndices(cb)[j] \in inside)]]

\* The history count of sampler invocations.  A run whose batches are not
\* empty draws at most num_samples times, so the count stops one above that.
CountDraw(d, n) == Min(d + 1, n + 1)

\* DrainCount without the limit: the whole queue is displayed at once.
DrainCountAll(q) == Len(q)

\* main.py:140
DrainCount(q) == Min(DrainPerTick, Len(q))

(* --------------------------- controller state -------------------------- *)

Hidden ==
    [ax |-> FALSE, circle |-> FALSE, start |-> TRUE,
     stop |-> FALSE, resume |-> FALSE, restart |-> FALSE]

Shown ==
    [ax |-> TRUE, circle |-> TRUE, start |-> FALSE,
     stop |-> TRUE, resume |-> TRUE, restart |-> TRUE]

\* The spec's ControllerState, read from the loop position, running[0]
\* and the start overlay.
ControllerState ==
    IF pc = "finished" THEN "Finished"
    ELSE IF pc \in {"closed", "crashed", "rejected"} THEN "Exited"
    ELSE IF pc = "main" THEN "Unbuilt"
    ELSE IF running THEN "Running"
    ELSE IF visible.start THEN "Idle"
    ELSE "Paused"

\* Callbacks and the window's close button act only inside plt.pause, and
\* only while the window exists.  The callbacks are registered once and for
\* all (main.py:107-110) and test neither running[0] nor the visibility of
\* their button, so the model lets each of them run in every pause.
InPause == pc \in {"pause_idle", "pause_run"} /\ fig_open

(* ------------------------- parsing --samples --------------------------- *)

Digits == <<"0", "1", "2", "3", "4", "5", "6", "7", "8", "9">>

IsDigit(c) == \E d \in 1..10 : Digits[d] = c

DigitValue(c) == (CHOOSE d \in 1..10 : Digits[d] = c) - 1

\* str.replace(sep, ''), main.py:169
RECURSIVE Remove(_, _)
Remove(s, sep) ==
    IF s = <<>> THEN <<>>
    ELSE IF s[1] = sep THEN Remove(Tail(s), sep)
    ELSE <<s[1]>> \o Remove(Tail(s), sep)

\* int() ignores blanks around the number
RECURSIVE StripLeft(_)
StripLeft(s) ==
    IF s # <<>> /\ s[1] = " " THEN StripLeft(Tail(s)) ELSE s

RECURSIVE StripRight(_)
StripRight(s) ==
    IF s # <<>> /\ s[Len(s)] = " "
    THEN StripRight(SubSeq(s, 1, Len(s) - 1)) ELSE s

\* The value of a sequence of decimal digits
RECURSIVE DigitsValue(_)
DigitsValue(s) ==
    IF s = <<>> THEN 0
    ELSE 10 * DigitsValue(SubSeq(s, 1, Len(s) - 1)) + DigitValue(s[Len(s)])

\* int(text), main.py:169: <<v>> for the value v, <<>> for ValueError.  The
\* text is blanks, an optional sign, one or more digits, blanks.
ParseInt(text) ==
    LET t == StripRight(StripLeft(text))
        signed == t # <<>> /\ t[1] \in {"+", "-"}
        body == IF signed THEN Tail(t) ELSE t
    IN  IF body = <<>> \/ \E i \in 1..Len(body) : ~IsDigit(body[i])
        THEN <<>>
        ELSE IF signed /\ t[1] = "-" THEN <<0 - DigitsValue(body)>>
        ELSE <<DigitsValue(body)>>

\* The test of main.py:170 with its sense turned: zero passes.
SamplesRejectedBelowZero(v) == v < 0

\* main.py:170
SamplesRejected(v) == v <= 0

\* main.py:168-174: <<samples>> when the run is to start, <<>> when the
\* ValueError of int() or of line 171 is caught
ParseSamples(text) ==
    LET v == ParseInt(Remove(Remove(text, ","), "_"))
    IN  IF v = <<>> THEN <<>>
        ELSE IF SamplesRejected(v[1]) THEN <<>>
        ELSE v

\* The decimal text of n >= 0, as the user types it without separators
RECURSIVE Decimal(_)
Decimal(n) ==
    IF n < 10 THEN <<Digits[n + 1]>>
    ELSE Decimal(n \div 10) \o <<Digits[(n % 10) + 1]>>

InvalidMessage == "Invalid number of samples provided."

(* ------------------------------- Init ---------------------------------- *)

\* The (num_samples, --batch) pairs main() hands to the animation: the small
\* runs, the large run, and a run one sample short of one large batch.
Configs ==
    ((1..MaxSamples) \X ({<<b>> : b \in (0 - NegBatch)..MaxBatch} \cup {None}))
        \cup {<<BigSamples, <<BigBatch>> >>}
        \cup {<<BigBatch - 1, <<BigBatch>> >>}

\* main.py:21-67, 112
Init ==
    /\ \E c \in Configs :
          /\ samples_arg = Decimal(c[1])
          /\ batch_arg = c[2]
          /\ num_samples = c[1]
          /\ batch_size = EffectiveBatch(c[1], c[2])
    /\ stdout = <<>>
    /\ inside_total = 0
    /\ samples_done = 0
    /\ running = FALSE
    /\ disp = <<>>
    /\ point_queue = <<>>
    /\ current_batch = 0
    /\ scatter = <<>>
    /\ pi_text = <<>>
    /\ samples_text = <<>>
    /\ visible = Hidden
    /\ fig_open = TRUE
    /\ pc = "loop"
    /\ draws = 0
    /\ run_no = 0
    /\ last_op = "init"
    /\ prev_state = "Idle"

(* -------------------------------- main --------------------------------- *)

\* The characters of the --samples texts the model tries.
ArgChars == {"0", "1", "-", "+", ",", "_", "a", " "}

\* Every text of at most MaxArgLen of these characters, and the large target
\* written with a separator as the help text of main.py:164 suggests.
ArgTexts ==
    UNION {[1..n -> ArgChars] : n \in 0..MaxArgLen}
        \cup {<<Decimal(BigSamples)[1], sep>> \o Tail(Decimal(BigSamples)) :
                  sep \in {",", "_"}}

\* The targets around the thresholds of the batch size table.
TierTargets ==
    UNION {(t - TierWindow)..(t + TierWindow) :
              t \in {Tier1Samples, Tier2Samples, Tier3Samples}}
        \cup 0..TierWindow

\* main.py:161-166: main() holds the parsed command line; nothing of the
\* animation exists yet.
Launched(texts, batches) ==
    /\ samples_arg \in texts
    /\ batch_arg \in batches
    /\ stdout = <<>>
    /\ num_samples = 0
    /\ batch_size = 0
    /\ inside_total = 0
    /\ samples_done = 0
    /\ running = FALSE
    /\ disp = <<>>
    /\ point_queue = <<>>
    /\ current_batch = 0
    /\ scatter = <<>>
    /\ pi_text = <<>>
    /\ samples_text = <<>>
    /\ visible = Hidden
    /\ fig_open = FALSE
    /\ pc = "main"
    /\ draws = 0
    /\ run_no = 0
    /\ last_op = "launch"
    /\ prev_state = "Unbuilt"

\* Texts typed by hand, with the default batch size or --batch BigBatch.
MainInit == Launched(ArgTexts, {None, <<BigBatch>>})

\* Targets around the table's thresholds, with and without --batch.
TableInit ==
    Launched({Decimal(n) : n \in TierTargets},
             {<<b>> : b \in (0 - NegBatch)..MaxBatch} \cup {None})

\* main.py:168-174: the text is no positive integer; print and return
main_reject ==
    /\ pc = "main"
    /\ ParseSamples(samples_arg) = <<>>
    /\ stdout' = Append(stdout, InvalidMessage)
    /\ pc' = "rejected"
    /\ last_op' = "main_reject"
    /\ prev_state' = ControllerState
    /\ UNCHANGED <<samples_arg, batch_arg, num_samples, batch_size,
                   inside_total, samples_done, running, disp, point_queue,
                   current_batch, scatter, pi_text, samples_text, visible,
                   fig_open, draws, run_no>>

\* main.py:168-176 and 9-112: the text parses; the animation is set up and
\* enters its loop
main_accept ==
    /\ pc = "main"
    /\ ParseSamples(samples_arg) # <<>>
    /\ num_samples' = ParseSamples(samples_arg)[1]
    /\ batch_size' = EffectiveBatch(num_samples', batch_arg)
    /\ fig_open' = TRUE
    /\ pc' = "loop"
    /\ last_op' = "main_accept"
    /\ prev_state' = ControllerState
    /\ UNCHANGED <<cli, inside_total, samples_done, running, disp, point_queue,
                   current_batch, scatter, pi_text, samples_text, visible,
                   draws, run_no>>

(* ------------------------------ callbacks ------------------------------ *)

\* stop as a toggle of running[0].
stopToggles ==
    /\ InPause
    /\ running' = ~running
    /\ last_op' = "stop"
    /\ prev_state' = ControllerState
    /\ UNCHANGED <<cli, num_samples, batch_size, inside_total, samples_done, disp,
                   point_queue, current_batch, scatter, pi_text, samples_text,
                   visible, fig_open, pc, draws, run_no>>

\* main.py:72-73
stop ==
    /\ InPause
    /\ running' = FALSE
    /\ last_op' = "stop"
    /\ prev_state' = ControllerState
    /\ UNCHANGED <<cli, num_samples, batch_size, inside_total, samples_done, disp,
                   point_queue, current_batch, scatter, pi_text, samples_text,
                   visible, fig_open, pc, draws, run_no>>

\* main.py:75-76
resume ==
    /\ InPause
    /\ running' = TRUE
    /\ last_op' = "resume"
    /\ prev_state' = ControllerState
    /\ UNCHANGED <<cli, num_samples, batch_size, inside_total, samples_done, disp,
                   point_queue, current_batch, scatter, pi_text, samples_text,
                   visible, fig_open, pc, draws, run_no>>

\* reset_data that keeps the running inside count.
reset_dataKeepsInside == <<inside_total, 0, <<>>, <<>>>>

\* reset_data that keeps the queued points.
reset_dataKeepsQueue == <<0, 0, <<>>, point_queue>>

\* main.py:69-70
reset_data == <<0, 0, <<>>, <<>>>>

\* main.py:78-94
restart ==
    /\ InPause
    /\ run_no < MaxRestarts
    /\ inside_total' = reset_data[1]
    /\ samples_done' = reset_data[2]
    /\ disp' = reset_data[3]
    /\ point_queue' = reset_data[4]
    /\ running' = FALSE
    /\ scatter' = <<>>
    /\ pi_text' = <<>>
    /\ samples_text' = <<>>
    /\ visible' = Hidden
    /\ draws' = 0
    /\ run_no' = run_no + 1
    /\ last_op' = "restart"
    /\ prev_state' = ControllerState
    /\ UNCHANGED <<cli, num_samples, batch_size, current_batch, fig_open, pc>>

\* main.py:96-105
start ==
    /\ InPause
    /\ running' = TRUE
    /\ visible' = Shown
    /\ last_op' = "start"
    /\ prev_state' = ControllerState
    /\ UNCHANGED <<cli, num_samples, batch_size, inside_total, samples_done, disp,
                   point_queue, current_batch, scatter, pi_text, samples_text,
                   fig_open, pc, draws, run_no>>

\* The user closes the window while the event loop runs.
close_window ==
    /\ InPause
    /\ fig_open' = FALSE
    /\ last_op' = "close"
    /\ prev_state' = ControllerState
    /\ UNCHANGED <<cli, num_samples, batch_size, inside_total, samples_done, running,
                   disp, point_queue, current_batch, scatter, pi_text,
                   samples_text, visible, pc, draws, run_no>>

(* ------------------------------- the loop ------------------------------ *)

\* main.py:115-116: not running, enter plt.pause(0.1)
idle_wait ==
    /\ pc = "loop"
    /\ ~running
    /\ pc' = "pause_idle"
    /\ last_op' = "idle_wait"
    /\ prev_state' = ControllerState
    /\ UNCHANGED <<cli, num_samples, batch_size, inside_total, samples_done, running,
                   disp, point_queue, current_batch, scatter, pi_text,
                   samples_text, visible, fig_open, draws, run_no>>

\* after_pause without the window test of the idle branch (main.py:117-118).
after_pauseIdleUnchecked ==
    /\ pc \in {"pause_idle", "pause_run"}
    /\ pc' = IF fig_open \/ pc = "pause_idle" THEN "loop" ELSE "closed"
    /\ last_op' = "after_pause"
    /\ prev_state' = ControllerState
    /\ UNCHANGED <<cli, num_samples, batch_size, inside_total, samples_done, running,
                   disp, point_queue, current_batch, scatter, pi_text,
                   samples_text, visible, fig_open, draws, run_no>>

\* main.py:117-119 and 156-157: after a pause, leave the loop when the
\* window is gone (then main.py:159), else go round again
after_pause ==
    /\ pc \in {"pause_idle", "pause_run"}
    /\ pc' = IF fig_open THEN "loop" ELSE "closed"
    /\ last_op' = "after_pause"
    /\ prev_state' = ControllerState
    /\ UNCHANGED <<cli, num_samples, batch_size, inside_total, samples_done, running,
                   disp, point_queue, current_batch, scatter, pi_text,
                   samples_text, visible, fig_open, draws, run_no>>

\* main.py:121-124, then 159
finish ==
    /\ pc = "loop"
    /\ running
    /\ samples_done >= num_samples
    /\ running' = FALSE
    /\ pc' = "finished"
    /\ fig_open' = FALSE
    /\ last_op' = "finish"
    /\ prev_state' = ControllerState
    /\ UNCHANGED <<cli, num_samples, batch_size, inside_total, samples_done, disp,
                   point_queue, current_batch, scatter, pi_text, samples_text,
                   visible, draws, run_no>>

\* main.py:126-129: np.random.uniform raises ValueError for a negative
\* size; nothing catches it
crash ==
    /\ pc = "loop"
    /\ running
    /\ samples_done < num_samples
    /\ Len(point_queue) = 0
    /\ ClampedBatch(batch_size, num_samples, samples_done) < 0
    /\ current_batch' = ClampedBatch(batch_size, num_samples, samples_done)
    /\ pc' = "crashed"
    /\ last_op' = "crash"
    /\ prev_state' = ControllerState
    /\ UNCHANGED <<cli, num_samples, batch_size, inside_total, samples_done, running,
                   disp, point_queue, scatter, pi_text, samples_text, visible,
                   fig_open, draws, run_no>>

\* DrainAndRender that renders before it drains.
DrainAndRenderStale(q, inside, done) ==
    /\ disp' = disp \o SubSeq(q, 1, DrainCount(q))
    /\ point_queue' = SubSeq(q, DrainCount(q) + 1, Len(q))
    /\ scatter' = disp
    /\ pi_text' = <<inside, done>>
    /\ samples_text' = <<done, num_samples>>
    /\ pc' = "pause_run"

\* DrainAndRender that takes the points from the back of the queue
\* (pop() for pop(0)).
DrainAndRenderLifo(q, inside, done) ==
    /\ disp' = disp \o [j \in 1..DrainCount(q) |-> q[Len(q) + 1 - j]]
    /\ point_queue' = SubSeq(q, 1, Len(q) - DrainCount(q))
    /\ scatter' = disp'
    /\ pi_text' = <<inside, done>>
    /\ samples_text' = <<done, num_samples>>
    /\ pc' = "pause_run"

\* main.py:140-154 after the queue q and the totals are settled: move
\* DrainCount points to the displayed lists, render, enter plt.pause(0.001)
DrainAndRender(q, inside, done) ==
    /\ disp' = disp \o SubSeq(q, 1, DrainCount(q))
    /\ point_queue' = SubSeq(q, DrainCount(q) + 1, Len(q))
    /\ scatter' = disp'
    /\ pi_text' = <<inside, done>>
    /\ samples_text' = <<done, num_samples>>
    /\ pc' = "pause_run"

\* sample_tick without the test of main.py:126: a batch is drawn in every
\* tick, whatever is still queued.
sample_tickAlways ==
    /\ pc = "loop"
    /\ running
    /\ samples_done < num_samples
    /\ ClampedBatch(batch_size, num_samples, samples_done) >= 0
    /\ current_batch' = ClampedBatch(batch_size, num_samples, samples_done)
    /\ \E inside \in InsideChoices(current_batch') :
          /\ inside_total' = inside_total + Cardinality(inside)
          /\ samples_done' = samples_done + current_batch'
          /\ draws' = CountDraw(draws, num_samples)
          /\ DrainAndRender(
                point_queue \o Subsample(current_batch', inside, run_no, draws'),
                inside_total', samples_done')
    /\ last_op' = "sample_tick"
    /\ prev_state' = ControllerState
    /\ UNCHANGED <<cli, num_samples, batch_size, running, visible, fig_open, run_no>>

\* main.py:126-154 with an empty queue: draw a batch, then drain and render
sample_tick ==
    /\ pc = "loop"
    /\ running
    /\ samples_done < num_samples
    /\ Len(point_queue) = 0
    /\ ClampedBatch(batch_size, num_samples, samples_done) >= 0
    /\ current_batch' = ClampedBatch(batch_size, num_samples, samples_done)
    /\ \E inside \in InsideChoices(current_batch') :
          /\ inside_total' = inside_total + Cardinality(inside)
          /\ samples_done' = samples_done + current_batch'
          /\ draws' = CountDraw(draws, num_samples)
          /\ DrainAndRender(
                point_queue \o Subsample(current_batch', inside, run_no, draws'),
                inside_total', samples_done')
    /\ last_op' = "sample_tick"
    /\ prev_state' = ControllerState
    /\ UNCHANGED <<cli, num_samples, batch_size, running, visible, fig_open, run_no>>

\* drain_tick without the test of running[0] (main.py:115).
drain_tickWhileIdle ==
    /\ pc = "loop"
    /\ samples_done < num_samples
    /\ Len(point_queue) > 0
    /\ DrainAndRender(point_queue, inside_total, samples_done)
    /\ last_op' = "drain_tick"
    /\ prev_state' = ControllerState
    /\ UNCHANGED <<cli, num_samples, batch_size, inside_total, samples_done, running,
                   current_batch, visible, fig_open, draws, run_no>>

\* main.py:126, 140-154 with points still queued: drain and render only
drain_tick ==
    /\ pc = "loop"
    /\ running
    /\ samples_done < num_samples
    /\ Len(point_queue) > 0
    /\ DrainAndRender(point_queue, inside_total, samples_done)
    /\ last_op' = "drain_tick"
    /\ prev_state' = ControllerState
    /\ UNCHANGED <<cli, num_samples, batch_size, inside_total, samples_done, running,
                   current_batch, visible, fig_open, draws, run_no>>

(* ---------------------------- specification ---------------------------- *)

Next ==
    \/ start
    \/ stop
    \/ resume
    \/ restart
    \/ close_window
    \/ idle_wait
    \/ after_pause
    \/ finish
    \/ crash
    \/ sample_tick
    \/ drain_tick

Spec == Init /\ [][Next]_vars

\* The loop's own steps: the program keeps executing them.
LoopStep ==
    idle_wait \/ after_pause \/ finish \/ crash \/ sample_tick \/ drain_tick

\* A run that is started and then left alone: no stop, resume, restart or
\* closing of the window.
RunNext ==
    \/ start
    \/ idle_wait
    \/ after_pause
    \/ finish
    \/ crash
    \/ sample_tick
    \/ drain_tick

RunSpec == Init /\ [][RunNext]_vars /\ WF_vars(LoopStep)

\* The program from its launch with a hand-typed --samples: main(), then a
\* run that is started and left alone until it ends or the window is closed.
MainNext ==
    \/ main_reject
    \/ main_accept
    \/ start
    \/ close_window
    \/ idle_wait
    \/ after_pause
    \/ finish
    \/ sample_tick
    \/ drain_tick

MainSpec == MainInit /\ [][MainNext]_vars

\* The program from its launch with a target near a threshold of the batch
\* size table, up to the closing of a window in which start was not pressed.
TableNext ==
    \/ main_reject
    \/ main_accept
    \/ close_window
    \/ idle_wait
    \/ after_pause

TableSpec == TableInit /\ [][TableNext]_vars

(* ------------------------------- claims -------------------------------- *)

\* Everything but the two history variables last_op and prev_state.
progvars == <<cli, num_samples, batch_size, inside_total, samples_done, running,
              disp, point_queue, current_batch, scatter, pi_text,
              samples_text, visible, fig_open, pc, draws, run_no>>

\* C1: for every batch size >= 1, samples_done never exceeds the target, and
\* when the exhaustion test of the loop succeeds (Finished) samples_done
\* equals the target exactly.
C1_FinishedExact ==
    batch_size >= 1 =>
        /\ samples_done <= num_samples
        /\ pc = "finished" => samples_done = num_samples

\* C1 witness: a run finished whose last batch was clamped below batch_size.
C1_Witness ==
    /\ pc = "finished"
    /\ batch_size >= 1
    /\ draws >= 2
    /\ current_batch < batch_size
    /\ samples_done = num_samples

\* C2: in every reachable state 0 <= inside_total <= samples_done <=
\* num_samples, whatever start, stop, resume, restart and ticks did.
C2_TotalsOrdered ==
    /\ 0 <= inside_total
    /\ inside_total <= samples_done
    /\ samples_done <= num_samples

\* C2 witness: after a restart, a second batch has been applied and the
\* inside count lies strictly between 0 and samples_done.
C2_Witness ==
    /\ run_no >= 1
    /\ last_op = "sample_tick"
    /\ draws >= 2
    /\ 0 < inside_total
    /\ inside_total < samples_done

\* Every point held or shown was drawn in the current run.
OnlyCurrentRun ==
    /\ \A i \in 1..Len(disp) : disp[i].run = run_no
    /\ \A i \in 1..Len(point_queue) : point_queue[i].run = run_no
    /\ \A i \in 1..Len(scatter) : scatter[i].run = run_no

\* C3: right after restart the totals are 0, the displayed points, the queue
\* and the scatter plot are empty and the controller is Idle; and no point
\* drawn before a restart is held or shown after it.
C3_RestartResets ==
    /\ last_op = "restart" =>
          /\ samples_done = 0
          /\ inside_total = 0
          /\ disp = <<>>
          /\ point_queue = <<>>
          /\ scatter = <<>>
          /\ pi_text = <<>>
          /\ samples_text = <<>>
          /\ ControllerState = "Idle"
    /\ OnlyCurrentRun

\* C3 witness: restart was pressed while Running, after a batch was drawn.
C3_Witness ==
    /\ last_op = "restart"
    /\ prev_state = "Running"
    /\ current_batch > 0

\* C4 as claimed: resume outside Paused leaves the controller state as it
\* is, and from Idle only start leads to Running.
C4_ResumeOnlyWhenPaused ==
    [][/\ (last_op' = "resume" /\ ControllerState # "Paused")
            => ControllerState' = ControllerState
       /\ (ControllerState = "Idle" /\ ControllerState' = "Running")
            => last_op' = "start"]_vars

\* C5 as claimed: start outside Idle changes neither the controller state
\* nor the per-run data.
C5_StartOnlyWhenIdle ==
    [][(last_op' = "start" /\ ControllerState \in {"Running", "Paused", "Finished"})
          => (ControllerState' = ControllerState /\ UNCHANGED data)]_vars

\* C6: stop only clears running[0]; a stop that follows a stop changes
\* nothing, and a stop in Paused or Finished leaves the controller state,
\* the totals, the queue and the displayed points as they are.
C6_StopIdempotent ==
    [][last_op' = "stop" =>
          /\ ~running'
          /\ UNCHANGED data
          /\ last_op = "stop" => UNCHANGED progvars
          /\ ControllerState \in {"Paused", "Finished"}
                => (ControllerState' = ControllerState /\ UNCHANGED progvars)]_vars

\* C6 witness: stop was pressed while Paused, with points still queued.
C6_Witness ==
    /\ last_op = "stop"
    /\ prev_state = "Paused"
    /\ samples_done > 0
    /\ Len(point_queue) > 0

\* C7: with batch size B >= 1 and target N, after the k-th sampler invocation
\* of a run samples_done = min(k*B, N) and the batch drawn was
\* min(B, N - (k-1)*B); at Finished k = ceil(N/B).
C7_BatchSequence ==
    batch_size >= 1 =>
        /\ samples_done =
              (IF draws * batch_size <= num_samples
               THEN draws * batch_size ELSE num_samples)
        /\ draws >= 1 =>
              current_batch =
                  (IF batch_size <= num_samples - (draws - 1) * batch_size
                   THEN batch_size
                   ELSE num_samples - (draws - 1) * batch_size)
        /\ pc = "finished" =>
              /\ (draws - 1) * batch_size < num_samples
              /\ num_samples <= draws * batch_size

\* C7 witness: the large run finished after three invocations, the last
\* one clamped (the shape of 250,000 samples in batches of 100,000).
C7_Witness ==
    /\ pc = "finished"
    /\ num_samples = BigSamples
    /\ draws = 3
    /\ 0 < current_batch
    /\ current_batch < batch_size

\* C8 as claimed: a run that is started and then left alone reaches Finished.
C8_RunCompletes == running ~> (pc = "finished")

\* C9: once the window is closed no step samples, dequeues or renders, and
\* the loop's next step leaves the loop.
C9_CloseEndsLoop ==
    [][~fig_open =>
          /\ pc' \in {"closed", "finished"}
          /\ UNCHANGED <<inside_total, samples_done, disp, point_queue, scatter,
                         pi_text, samples_text, draws, current_batch>>]_vars

\* C9 witness: the loop was left because the window was closed in the
\* middle of a run, while Running with samples still to draw.
C9_Witness ==
    /\ pc = "closed"
    /\ running
    /\ 0 < samples_done
    /\ samples_done < num_samples
    /\ Len(point_queue) > 0

\* The points of the current run, displayed ones first.
Enqueued == disp \o point_queue

\* C10: the points the last batch (of size B >= 1) put on the queue are those
\* at the indices 0, s, 2s, ... < B with s = max(1, B // 200), in that order,
\* coloured by their own classification side; there are ceil(B / s) of them.
C10_SubsampleByStride ==
    (draws >= 1 /\ current_batch >= 1) =>
        LET s == IF current_batch \div SubsampleTarget >= 1
                 THEN current_batch \div SubsampleTarget ELSE 1
            n == (current_batch + s - 1) \div s
            first == Len(Enqueued) - n
        IN  /\ first >= 0
            /\ \A j \in 1..n :
                  /\ Enqueued[first + j].idx = (j - 1) * s
                  /\ Enqueued[first + j].idx < current_batch
                  /\ Enqueued[first + j].draw = draws
            /\ \A k \in 1..first : Enqueued[k].draw < draws

\* C10 witness: a batch subsampled at a stride of at least 2 was just
\* enqueued and is partly drained.
C10_Witness ==
    /\ last_op = "sample_tick"
    /\ current_batch \div SubsampleTarget >= 2
    /\ Len(point_queue) > 0
    /\ Len(disp) > 0

\* The number of points the batch drawn last put on the queue.
LastBatchPoints ==
    Cardinality({k \in 1..Len(Enqueued) : Enqueued[k].draw = draws})

\* C11 as claimed: no batch adds more than 200 points to the queue.
C11_AtMost200 == draws >= 1 => LastBatchPoints <= SubsampleTarget

\* C11 amended: no batch adds more than 2 * 200 - 1 = 399 points to the
\* queue, in the runs and for every batch size in 1..SweepBatch.
C11_Below400 ==
    /\ draws >= 1 => LastBatchPoints <= 2 * SubsampleTarget - 1
    /\ last_op = "init" =>
          \A b \in 1..SweepBatch :
              Len(StrideIndices(b)) <= 2 * SubsampleTarget - 1

\* C11 witness: a batch of 399 points has just put all 399 on the queue.
C11_Witness ==
    /\ last_op = "sample_tick"
    /\ current_batch = 2 * SubsampleTarget - 1
    /\ LastBatchPoints = 2 * SubsampleTarget - 1

\* C14: a step taken while running[0] is False, other than restart, leaves the
\* totals, the queue and the displayed points as they are; so do the idle
\* ticks of Idle and Paused, which render nothing either.  A resume that
\* follows a stop therefore finds what the stop left.
C14_IdleTicksKeepData ==
    [][/\ (~running /\ last_op' # "restart") => UNCHANGED data
       /\ (ControllerState \in {"Idle", "Paused"}
              /\ last_op' \in {"idle_wait", "after_pause"})
            => UNCHANGED <<data, scatter, pi_text, samples_text, draws,
                           current_batch, running>>]_vars

\* C14 witness: resume was pressed in Paused, after an idle tick, with points
\* queued and samples still to draw.
C14_Witness ==
    /\ last_op = "resume"
    /\ prev_state = "Paused"
    /\ pc = "pause_idle"
    /\ Len(point_queue) > 0
    /\ 0 < samples_done
    /\ samples_done < num_samples

\* C15: a Running tick invokes the sampler at most once, then moves
\* min(100, length of the queue) points from the front of the queue to the
\* end of the displayed points, then renders what is displayed and the new
\* totals, then pauses; callbacks and the closing of the window act only in
\* a pause and leave the loop where it is.
C15_TickOrder ==
    [][/\ last_op' \in {"sample_tick", "drain_tick"} =>
            /\ ControllerState = "Running"
            /\ draws' \in {draws, draws + 1}
            /\ last_op' = "drain_tick" => (draws' = draws /\ UNCHANGED samples_done)
            /\ \E k \in 0..Len(Enqueued') :
                  /\ k = Len(disp') - Len(disp)
                  /\ k = (IF Len(Enqueued') - Len(disp) >= DrainPerTick
                          THEN DrainPerTick ELSE Len(Enqueued') - Len(disp))
            /\ SubSeq(Enqueued', 1, Len(Enqueued)) = Enqueued
            /\ SubSeq(disp', 1, Len(disp)) = disp
            /\ scatter' = disp'
            /\ pi_text' = <<inside_total', samples_done'>>
            /\ samples_text' = <<samples_done', num_samples>>
            /\ pc = "loop" /\ pc' = "pause_run"
       /\ last_op' \in {"start", "stop", "resume", "restart", "close"} =>
            /\ pc \in {"pause_idle", "pause_run"}
            /\ pc' = pc]_vars

\* C15 witness: a tick that found 100 points queued displayed all of them
\* after an earlier tick had displayed the first 100 of the batch.
C15_Witness ==
    /\ last_op = "drain_tick"
    /\ pc = "pause_run"
    /\ Len(point_queue) = 0
    /\ Len(scatter) = 2 * DrainPerTick

\* Point p was queued before point q: an earlier draw, or the same draw and
\* a smaller index.  The order is transitive, so a sequence whose neighbours
\* are in order is in order throughout and holds no point twice.
Before(p, q) == p.draw < q.draw \/ (p.draw = q.draw /\ p.idx < q.idx)

\* C16: the displayed points followed by the queue are the points queued
\* since the last restart, in the order they were queued, none twice; a step
\* other than restart only appends to that sequence and to the displayed
\* points, and only a sampling tick adds points.
C16_FifoNoLoss ==
    /\ [](\A i \in 1..(Len(Enqueued) - 1) :
              Before(Enqueued[i], Enqueued[i + 1]))
    /\ [][last_op' # "restart" =>
            /\ Len(Enqueued') >= Len(Enqueued)
            /\ SubSeq(Enqueued', 1, Len(Enqueued)) = Enqueued
            /\ Len(disp') >= Len(disp)
            /\ SubSeq(disp', 1, Len(disp)) = disp
            /\ last_op' # "sample_tick" => Enqueued' = Enqueued]_vars

\* C16 witness: points of two batches are displayed and points of the second
\* are still queued.
C16_Witness ==
    /\ Len(disp) > 0
    /\ Len(point_queue) > 0
    /\ disp[1].draw = 1
    /\ disp[Len(disp)].draw = 2
    /\ point_queue[1].draw = 2

\* C17 as claimed: whenever the estimate has been rendered, it was computed
\* from a positive samples_done.
C17_EstimateDefined == pi_text # <<>> => pi_text[2] > 0

\* C18 as claimed: at Finished the queue is empty.
C18_QueueEmptyAtFinished == pc = "finished" => point_queue = <<>>

\* The number of points range(0, cb, max(1, cb // 200)) yields.
SubsampleSize(cb) ==
    LET s == IF cb \div SubsampleTarget >= 1 THEN cb \div SubsampleTarget ELSE 1
    IN  (cb + s - 1) \div s

\* C18 amended: at Finished the queue holds what the last batch's subsample
\* had beyond the 100 points displayed in its own tick, and is empty only if
\* that subsample had at most 100 points.
C18_QueueAtFinished ==
    pc = "finished" =>
        /\ Len(point_queue) =
              (IF SubsampleSize(current_batch) > DrainPerTick
               THEN SubsampleSize(current_batch) - DrainPerTick ELSE 0)
        /\ \A i \in 1..Len(point_queue) : point_queue[i].draw = draws

\* C18 witness: a run finished with points of its last batch still queued.
C18_Witness ==
    /\ pc = "finished"
    /\ Len(point_queue) > 0
    /\ samples_done = num_samples

\* C19 as claimed: for a batch size B >= 1 the queue never holds more than
\* ceil(B / max(1, B // 200)) points.
C19_QueueBoundedByBatchSize ==
    batch_size >= 1 => Len(point_queue) <= SubsampleSize(batch_size)

\* C19 amended: the queue holds points of the batch drawn last only, at most
\* ceil(b / max(1, b // 200)) of them for the size b of that batch, and
\* samples_done changes (restart aside) only in a tick that found the queue
\* empty.
C19_QueueOneBatch ==
    /\ [](/\ \A i \in 1..Len(point_queue) : point_queue[i].draw = draws
          /\ Len(point_queue) <= SubsampleSize(Max(current_batch, 0)))
    /\ [][(samples_done' # samples_done /\ last_op' # "restart")
            => (point_queue = <<>> /\ last_op' = "sample_tick")]_vars
    /\ [][draws' # draws /\ last_op' # "restart" => point_queue = <<>>]_vars

\* C19 witness: the queue holds more points of the last, clamped batch than a
\* full batch would have put there.
C19_Witness ==
    /\ batch_size >= 1
    /\ current_batch < batch_size
    /\ Len(point_queue) > SubsampleSize(batch_size)

\* The text without its commas and underscores.
Unseparated(text) == SelectSeq(text, LAMBDA c : c \notin {",", "_"})

\* The text, commas and underscores aside, writes a positive integer: blanks,
\* an optional plus sign, digits of which one is not 0, blanks.
WritesPositiveInteger(text) ==
    LET t == Unseparated(text)
    IN  \E i \in 1..Len(t) : \E j \in i..Len(t) :
            /\ \A k \in 1..(i - 1) : t[k] = " "
            /\ \A k \in (j + 1)..Len(t) : t[k] = " "
            /\ \E d \in i..j :
                  /\ d = i \/ (d = i + 1 /\ t[i] = "+")
                  /\ \A k \in d..j : t[k] \in {"0", "1", "2", "3", "4",
                                              "5", "6", "7", "8", "9"}
                  /\ \E k \in d..j : t[k] # "0"

\* C12: when the --samples text writes no positive integer, main() prints
\* "Invalid number of samples provided." once and returns: no window is
\* opened, the loop is never entered and no batch is ever drawn.
C12_InvalidNeverRuns ==
    ~WritesPositiveInteger(samples_arg) =>
        /\ pc \in {"main", "rejected"}
        /\ pc = "main" => stdout = <<>>
        /\ pc = "rejected" => stdout = <<"Invalid number of samples provided.">>
        /\ ~fig_open
        /\ ~running
        /\ draws = 0
        /\ samples_done = 0
        /\ num_samples = 0

\* C12 witness: --samples "-1" has been rejected with the message.
C12_Witness ==
    /\ samples_arg = <<"-", "1">>
    /\ pc = "rejected"
    /\ stdout = <<"Invalid number of samples provided.">>
    /\ ~fig_open

\* C13: once the animation is set up, a --batch that was given is the batch
\* size, and without one the batch size is the table's value for the target
\* typed, each threshold belonging to the row it ends.
C13_BatchTable ==
    pc \notin {"main", "rejected"} =>
        /\ samples_arg = Decimal(num_samples)
        /\ batch_arg # <<>> => batch_size = batch_arg[1]
        /\ batch_arg = <<>> =>
              /\ num_samples <= Tier1Samples => batch_size = Tier1Batch
              /\ (Tier1Samples < num_samples /\ num_samples <= Tier2Samples)
                    => batch_size = Tier2Batch
              /\ (Tier2Samples < num_samples /\ num_samples <= Tier3Samples)
                    => batch_size = Tier3Batch
              /\ Tier3Samples < num_samples => batch_size = Tier4Batch

\* C13 witness: the first target of the last row, without --batch, has been
\* given the last row's batch size.
C13_Witness ==
    /\ pc = "pause_idle"
    /\ batch_arg = <<>>
    /\ num_samples = Tier3Samples + 1
    /\ batch_size = Tier4Batch

====
